---- MODULE Spec2Model ----
(***************************************************************************)
(* A model of lighthouse-core/runner.js: Runner.run and its helpers.       *)
(*                                                                         *)
(* JavaScript values are encoded as strings: the values undefined, false   *)
(* and true are "undefined", "false" and "true"; every other string stands *)
(* for itself.  An optional array is a record [present, items].  A         *)
(* settings object is a function from its own keys to values.              *)
(***************************************************************************)
EXTENDS Integers, Sequences, FiniteSets, TLC

(***************************************************************************)
(* Bounds of the model.                                                    *)
(***************************************************************************)
NumPaths == 2
NumCallers == 3
NumRuns == 2

(***************************************************************************)
(* Input domains.                                                          *)
(***************************************************************************)
PathNames == <<"./out1", "./out2", "./out3", "./out4">>
PathStrings == {PathNames[i] : i \in 1..NumPaths}
ModeValues == {"undefined", "false", "true"} \cup PathStrings
OutputValues == {"json", "html"}
ThrottlingValues == {"devtools", "simulate"}
ModeKeys == {"gatherMode", "auditMode", "output"}

ConfigSettingsSet ==
  [gatherMode : ModeValues, auditMode : ModeValues, output : {"json"},
   throttlingMethod : {"devtools"}]

AbsentArray == [present |-> FALSE, items |-> <<>>]
EmptyArray == [present |-> TRUE, items |-> <<>>]
PassesValues == {AbsentArray, EmptyArray, [present |-> TRUE, items |-> <<"defaultPass">>]}
AuditsValues == {AbsentArray, EmptyArray, [present |-> TRUE, items |-> <<"auditA">>]}
CategoriesValues == {"undefined", "cat1"}

ConfigSet ==
  [settings : ConfigSettingsSet, passes : PassesValues, audits : AuditsValues,
   categories : CategoriesValues]

UrlValues == {"undefined", "", "nonsense", "http://a.com", "http://a.com/#f", "http://b.com/"}

\* Settings snapshots a Collector or a Store may hand back inside Artifacts;
\* the last kind is a snapshot written without an output key.
ArtifactSettingsSet ==
  {[gatherMode |-> "true", auditMode |-> "false", output |-> o, throttlingMethod |-> t] :
     <<o, t>> \in {<<"html", "devtools">>, <<"json", "simulate">>}}
  \cup {[gatherMode |-> "true", auditMode |-> "false", throttlingMethod |-> "devtools"]}

NoSettings == [absent |-> "settings"]

ArtifactsSet ==
  [requestedUrl : {"http://a.com/", "http://b.com/"},
   settings : ArtifactSettingsSet \cup {NoSettings},
   LighthouseRunWarnings : {AbsentArray, [present |-> TRUE, items |-> <<"gatherWarning1", "gatherWarning2">>]}]

NoArtifacts == [absent |-> "artifacts"]

(***************************************************************************)
(* JavaScript primitives used by the runner.                               *)
(***************************************************************************)
\* ToBoolean on the encoded values
Truthy(v) == v \notin {"undefined", "false", ""}

\* typeof v === 'string'
IsString(v) == v \notin {"undefined", "false", "true"}

\* Object.assign({}, obj, overrides)
ObjectAssign(obj, overrides) ==
  [k \in (DOMAIN obj) \cup (DOMAIN overrides) |->
     IF k \in DOMAIN overrides THEN overrides[k] ELSE obj[k]]

\* lodash.isequal on flat objects: same own keys, same value under each key
isDeepEqual(a, b) ==
  /\ DOMAIN a = DOMAIN b
  /\ \A k \in DOMAIN a : a[k] = b[k]

\* new URL(u) succeeds
ParsesAsUrl(u) == u \in {"http://a.com", "http://a.com/", "http://a.com/#f", "http://b.com/"}

\* new URL(u).href
Href(u) == IF u = "http://a.com" THEN "http://a.com/" ELSE u

\* the href with its fragment removed
WithoutFragment(h) == IF h = "http://a.com/#f" THEN "http://a.com/" ELSE h

\* URL.equalWithExcludedFragments of lib/url-shim
equalWithExcludedFragments(u1, u2) ==
  /\ ParsesAsUrl(u1)
  /\ ParsesAsUrl(u2)
  /\ WithoutFragment(Href(u1)) = WithoutFragment(Href(u2))

\* path.resolve(process.cwd(), p) and path.join(process.cwd(), p)
Cwd == "/cwd"
PathResolve(p) == <<Cwd, p>>

(***************************************************************************)
(* Runner.shouldGather, Runner.shouldAudit, Runner._getArtifactsPath       *)
(***************************************************************************)
shouldGather_noDefault(settings) == Truthy(settings.gatherMode)

shouldGather(settings) ==
  Truthy(settings.gatherMode) \/ settings.gatherMode = settings.auditMode

shouldAudit(settings) ==
  Truthy(settings.auditMode) \/ settings.gatherMode = settings.auditMode

\* the gatherMode path preferred over the auditMode path
_getArtifactsPath_gatherFirst(settings) ==
  IF IsString(settings.gatherMode) THEN PathResolve(settings.gatherMode)
  ELSE IF IsString(settings.auditMode) THEN PathResolve(settings.auditMode)
  ELSE PathResolve("latest-run")

_getArtifactsPath(settings) ==
  IF IsString(settings.auditMode) THEN PathResolve(settings.auditMode)
  ELSE IF IsString(settings.gatherMode) THEN PathResolve(settings.gatherMode)
  ELSE PathResolve("latest-run")

ArtifactsPaths == {PathResolve(p) : p \in PathStrings \cup {"latest-run"}}

(***************************************************************************)
(* State of one invocation of Runner.run(connection, runOpts).             *)
(***************************************************************************)
VARIABLES
  config,             \* runOpts.config
  url,                \* runOpts.url
  pc,                 \* the point Runner.run has reached
  artifacts,          \* const artifacts of Runner.run
  collectorUrl,       \* first argument GatherRunner.run was called with
  loadedFrom,         \* the path assetSaver.loadArtifacts was called with
  store,              \* what assetSaver.saveArtifacts has written, by path
  trace,              \* calls into collaborators and how they settled, in order
  err,                \* the error bound in the catch clause
  captured,           \* arguments of the Sentry.captureException calls
  outcome,            \* how the promise returned by Runner.run settled
  auditResults,       \* what AuditRunner.run resolved to
  auditRunWarnings,   \* the warnings AuditRunner.run pushed
  resultsById,        \* const resultsById of Runner.run
  categories,         \* let categories of Runner.run
  lhr,                \* const lhr of Runner.run
  computedArtifacts   \* the object built by instantiateComputedArtifacts

\* State of the computed artifacts the Evaluator's audits request.
VARIABLES
  cache,              \* per computed-artifact instance: its cached promise, if any
  computeCount,       \* per computed-artifact class: executions of its compute function
  promises,           \* the promises the compute functions returned and their state
  held,               \* per caller: the request it made and the promise it was given
  received            \* per caller: the outcome the promise it awaits settled to

\* The evaluation phases of several Runner.run calls, side by side.
VARIABLES
  runPc,              \* per run: where it stands with respect to its evaluation phase
  runRegistry,        \* per run: the computedArtifacts object its auditArtifacts built
  heap,               \* the computedArtifacts objects built so far, by identity
  observed            \* per run: what its requests for computed artifacts were answered with

runsVars == <<runPc, runRegistry, heap, observed>>

registryVars == <<cache, computeCount, promises, held, received, runsVars>>

pipelineVars ==
  <<config, url, pc, artifacts, collectorUrl, loadedFrom, store, trace, err, captured,
    outcome, auditResults, auditRunWarnings, resultsById, categories, lhr,
    computedArtifacts>>

Event(op, ev) == [op |-> op, ev |-> ev]

Pending == [kind |-> "pending"]
Returned(v) == [kind |-> "returned", value |-> v]
Threw(e) == [kind |-> "threw", error |-> e]
JsUndefined == [type |-> "undefined"]
RunnerResult(l, a, r) == [lhr |-> l, artifacts |-> a, report |-> r]

NoPath == <<>>
NotSaved == [absent |-> "saved artifacts"]
NoLhr == [absent |-> "lhr"]
NoRegistry == [absent |-> "computedArtifacts"]
EmptyObject == [k \in {} |-> "undefined"]

\* the computed artifacts AuditRunner.getComputedGathererList names
ComputedNames == {"X", "Y"}
ComputedValues == {"v1", "v2"}
Callers == 1..NumCallers
NoRequest == [absent |-> "request"]
NoOutcome == [absent |-> "outcome"]

\* the Runner.run calls considered side by side
Runs == 1..NumRuns
NoObject == 0

\* no run has reached its evaluation phase
InitRuns ==
  /\ runPc = [r \in Runs |-> "idle"]
  /\ runRegistry = [r \in Runs |-> NoObject]
  /\ heap = <<>>
  /\ observed = [r \in Runs |-> {}]

InitPipeline ==
  /\ config \in ConfigSet
  /\ url \in UrlValues
  /\ pc = "run"
  /\ artifacts = NoArtifacts
  /\ collectorUrl = "none"
  /\ loadedFrom = NoPath
  /\ store = [p \in ArtifactsPaths |-> NotSaved]
  /\ trace = <<>>
  /\ err = "none"
  /\ captured = <<>>
  /\ outcome = Pending
  /\ auditResults = <<>>
  /\ auditRunWarnings = <<>>
  /\ resultsById = EmptyObject
  /\ categories = EmptyObject
  /\ lhr = NoLhr
  /\ computedArtifacts = NoRegistry
  /\ cache = EmptyObject
  /\ computeCount = [n \in ComputedNames |-> 0]
  /\ promises = EmptyObject
  /\ held = [c \in Callers |-> NoRequest]
  /\ received = [c \in Callers |-> NoOutcome]
  /\ InitRuns

(***************************************************************************)
(* The catch clause of Runner.run up to its await: the error is handed to  *)
(* Sentry.captureException tagged fatal.  tr is the trace up to the throw. *)
(***************************************************************************)
Catch_notReported(e, tr) ==
  /\ err' = e
  /\ captured' = captured
  /\ trace' = Append(tr, Event("Sentry.captureException", "call"))
  /\ store' = store
  /\ pc' = "Sentry.captureException"

Catch_rollback(e, tr) ==
  /\ err' = e
  /\ captured' = Append(captured, [error |-> e, level |-> "fatal"])
  /\ trace' = Append(tr, Event("Sentry.captureException", "call"))
  /\ store' = [p \in ArtifactsPaths |-> NotSaved]
  /\ pc' = "Sentry.captureException"

Catch(e, tr) ==
  /\ err' = e
  /\ captured' = Append(captured, [error |-> e, level |-> "fatal"])
  /\ trace' = Append(tr, Event("Sentry.captureException", "call"))
  /\ store' = store
  /\ pc' = "Sentry.captureException"

\* a catch clause that reports the error and does not rethrow it
CaptureSettle_swallow ==
  /\ pc = "Sentry.captureException"
  /\ trace' = Append(trace, Event("Sentry.captureException", "settle"))
  /\ outcome' = Returned(JsUndefined)
  /\ pc' = "done"
  /\ UNCHANGED <<registryVars, config, url, artifacts, collectorUrl, loadedFrom, store,
                 err, captured, auditResults, auditRunWarnings, resultsById,
                 categories, lhr, computedArtifacts>>

\* Sentry.captureException settled: throw err
CaptureSettle ==
  /\ pc = "Sentry.captureException"
  /\ trace' = Append(trace, Event("Sentry.captureException", "settle"))
  /\ outcome' = Threw(err)
  /\ pc' = "failed"
  /\ UNCHANGED <<registryVars, config, url, artifacts, collectorUrl, loadedFrom, store,
                 err, captured, auditResults, auditRunWarnings, resultsById,
                 categories, lhr, computedArtifacts>>

\* Runner.run up to the call of Runner.gatherArtifacts
RunStart ==
  /\ pc = "run"
  /\ trace' = Append(trace, Event("Sentry.captureBreadcrumb", "call"))
  /\ pc' = "gatherArtifacts"
  /\ UNCHANGED <<registryVars, config, url, artifacts, collectorUrl, loadedFrom, store,
                 err, captured, outcome, auditResults, auditRunWarnings, resultsById,
                 categories, lhr, computedArtifacts>>

(***************************************************************************)
(* Runner.gatherArtifacts                                                  *)
(***************************************************************************)
failedVars ==
  <<registryVars, config, url, artifacts, collectorUrl, loadedFrom, outcome,
    auditResults, auditRunWarnings, resultsById, categories, lhr, computedArtifacts>>

\* no browser required: load the artifacts from disk
GatherLoad ==
  /\ pc = "gatherArtifacts"
  /\ ~shouldGather(config.settings)
  /\ loadedFrom' = _getArtifactsPath(config.settings)
  /\ trace' = Append(trace, Event("Store.load", "call"))
  /\ pc' = "Store.load"
  /\ UNCHANGED <<registryVars, config, url, artifacts, collectorUrl, store, err,
                 captured, outcome, auditResults, auditRunWarnings, resultsById,
                 categories, lhr, computedArtifacts>>

PassesMissing(cfg) == ~cfg.passes.present

GatherNoPasses ==
  /\ pc = "gatherArtifacts"
  /\ shouldGather(config.settings)
  /\ PassesMissing(config)
  /\ Catch("No passes in config to run", trace)
  /\ UNCHANGED failedVars

UrlMissing(u) == ~IsString(u) \/ u = ""

GatherNoUrl ==
  /\ pc = "gatherArtifacts"
  /\ shouldGather(config.settings)
  /\ ~PassesMissing(config)
  /\ UrlMissing(url)
  /\ Catch("You must provide a url to the runner", trace)
  /\ UNCHANGED failedVars

GatherInvalidUrl ==
  /\ pc = "gatherArtifacts"
  /\ shouldGather(config.settings)
  /\ ~PassesMissing(config)
  /\ ~UrlMissing(url)
  /\ ~ParsesAsUrl(url)
  /\ Catch("The url provided should have a proper protocol and hostname", trace)
  /\ UNCHANGED failedVars

\* the first argument of GatherRunner.run
requestedUrl(u) == Href(u)

GatherRun ==
  /\ pc = "gatherArtifacts"
  /\ shouldGather(config.settings)
  /\ ~PassesMissing(config)
  /\ ~UrlMissing(url)
  /\ ParsesAsUrl(url)
  /\ collectorUrl' = requestedUrl(url)
  /\ trace' = Append(trace, Event("Collector.run", "call"))
  /\ pc' = "Collector.run"
  /\ UNCHANGED <<registryVars, config, url, artifacts, loadedFrom, store, err,
                 captured, outcome, auditResults, auditRunWarnings, resultsById,
                 categories, lhr, computedArtifacts>>

\* assetSaver.loadArtifacts resolved with a
LoadSettle ==
  /\ pc = "Store.load"
  /\ \E a \in ArtifactsSet : artifacts' = a
  /\ trace' = Append(trace, Event("Store.load", "settle"))
  /\ pc' = "persist"
  /\ UNCHANGED <<registryVars, config, url, collectorUrl, loadedFrom, store, err,
                 captured, outcome, auditResults, auditRunWarnings, resultsById,
                 categories, lhr, computedArtifacts>>

\* a failed load answered by calling assetSaver.loadArtifacts again
LoadFail_retry ==
  /\ pc = "Store.load"
  /\ trace' = trace \o <<Event("Store.load", "throw"), Event("Store.load", "call")>>
  /\ UNCHANGED <<pc, err, captured, store>>
  /\ UNCHANGED failedVars

LoadFail ==
  /\ pc = "Store.load"
  /\ Catch("Store.load failed", Append(trace, Event("Store.load", "throw")))
  /\ UNCHANGED failedVars

\* GatherRunner.run resolved with a
CollectorSettle ==
  /\ pc = "Collector.run"
  /\ \E a \in ArtifactsSet : artifacts' = a
  /\ trace' = Append(trace, Event("Collector.run", "settle"))
  /\ pc' = "persist"
  /\ UNCHANGED <<registryVars, config, url, collectorUrl, loadedFrom, store, err,
                 captured, outcome, auditResults, auditRunWarnings, resultsById,
                 categories, lhr, computedArtifacts>>

CollectorFail ==
  /\ pc = "Collector.run"
  /\ Catch("Collector.run failed", Append(trace, Event("Collector.run", "throw")))
  /\ UNCHANGED failedVars

(***************************************************************************)
(* Runner.run after the gather phase: persist, early exit                  *)
(***************************************************************************)
PersistWanted_onlyTrue(settings) == settings.gatherMode = "true"

\* persisting whenever collection was requested
PersistWanted_whenGathered(settings) == shouldGather(settings)

\* if (settings.gatherMode)
PersistWanted(settings) == Truthy(settings.gatherMode)

\* the save is started and not awaited
PersistSave_notAwaited ==
  /\ pc = "persist"
  /\ PersistWanted(config.settings)
  /\ trace' = Append(trace, Event("Store.save", "call"))
  /\ pc' = "earlyExit"
  /\ UNCHANGED <<registryVars, config, url, artifacts, collectorUrl, loadedFrom, store,
                 err, captured, outcome, auditResults, auditRunWarnings, resultsById,
                 categories, lhr, computedArtifacts>>

PersistSave ==
  /\ pc = "persist"
  /\ PersistWanted(config.settings)
  /\ trace' = Append(trace, Event("Store.save", "call"))
  /\ pc' = "Store.save"
  /\ UNCHANGED <<registryVars, config, url, artifacts, collectorUrl, loadedFrom, store,
                 err, captured, outcome, auditResults, auditRunWarnings, resultsById,
                 categories, lhr, computedArtifacts>>

PersistSkip ==
  /\ pc = "persist"
  /\ ~PersistWanted(config.settings)
  /\ pc' = "earlyExit"
  /\ UNCHANGED <<registryVars, config, url, artifacts, collectorUrl, loadedFrom, store,
                 trace, err, captured, outcome, auditResults, auditRunWarnings,
                 resultsById, categories, lhr, computedArtifacts>>

\* assetSaver.saveArtifacts(artifacts, path) resolved
SaveSettle ==
  /\ pc = "Store.save"
  /\ store' = [store EXCEPT ![_getArtifactsPath(config.settings)] = artifacts]
  /\ trace' = Append(trace, Event("Store.save", "settle"))
  /\ pc' = "earlyExit"
  /\ UNCHANGED <<registryVars, config, url, artifacts, collectorUrl, loadedFrom, err,
                 captured, outcome, auditResults, auditRunWarnings, resultsById,
                 categories, lhr, computedArtifacts>>

SaveFail ==
  /\ pc = "Store.save"
  /\ Catch("Store.save failed", Append(trace, Event("Store.save", "throw")))
  /\ UNCHANGED failedVars

\* if (!Runner.shouldAudit(settings)) return;
EarlyExit ==
  /\ pc = "earlyExit"
  /\ ~shouldAudit(config.settings)
  /\ outcome' = Returned(JsUndefined)
  /\ pc' = "done"
  /\ UNCHANGED <<registryVars, config, url, artifacts, collectorUrl, loadedFrom, store,
                 trace, err, captured, auditResults, auditRunWarnings, resultsById,
                 categories, lhr, computedArtifacts>>

GoAudit ==
  /\ pc = "earlyExit"
  /\ shouldAudit(config.settings)
  /\ pc' = "auditArtifacts"
  /\ UNCHANGED <<registryVars, config, url, artifacts, collectorUrl, loadedFrom, store,
                 trace, err, captured, outcome, auditResults, auditRunWarnings,
                 resultsById, categories, lhr, computedArtifacts>>

(***************************************************************************)
(* Runner.auditArtifacts                                                   *)
(***************************************************************************)
AuditsMissing(cfg) == ~cfg.audits.present

TargetMismatch_noGuard(u, a) == ~equalWithExcludedFragments(u, a.requestedUrl)

TargetMismatch(u, a) == Truthy(u) /\ ~equalWithExcludedFragments(u, a.requestedUrl)

overrides_noOutput == [gatherMode |-> "undefined", auditMode |-> "undefined"]

overrides == [gatherMode |-> "undefined", auditMode |-> "undefined", output |-> "undefined"]

SettingsMismatch(a, cfg) ==
  /\ a.settings # NoSettings
  /\ ~isDeepEqual(ObjectAssign(a.settings, overrides), ObjectAssign(cfg.settings, overrides))

AuditNoAudits ==
  /\ pc = "auditArtifacts"
  /\ AuditsMissing(config)
  /\ Catch("No audits in config to evaluate", trace)
  /\ UNCHANGED failedVars

AuditUrlMismatch ==
  /\ pc = "auditArtifacts"
  /\ ~AuditsMissing(config)
  /\ TargetMismatch(url, artifacts)
  /\ Catch("Cannot run audit mode on different URL than gatherers were", trace)
  /\ UNCHANGED failedVars

\* the settings check made without waiting for the target check
AuditSettingsMismatch_unordered ==
  /\ pc = "auditArtifacts"
  /\ ~AuditsMissing(config)
  /\ SettingsMismatch(artifacts, config)
  /\ Catch("Cannot change settings between gathering and auditing", trace)
  /\ UNCHANGED failedVars

AuditSettingsMismatch ==
  /\ pc = "auditArtifacts"
  /\ ~AuditsMissing(config)
  /\ ~TargetMismatch(url, artifacts)
  /\ SettingsMismatch(artifacts, config)
  /\ Catch("Cannot change settings between gathering and auditing", trace)
  /\ UNCHANGED failedVars

\* every request<name> property bound to the instance created last
instantiateComputedArtifacts_lastBound == [n \in ComputedNames |-> "Y"]

\* each request<name> property is the request method bound to the instance
\* of the class of that name
instantiateComputedArtifacts == [n \in ComputedNames |-> n]

\* new ArtifactClass(computedArtifacts): every instance starts with an empty cache
NotStarted == [state |-> "NotStarted"]
newCaches == [n \in ComputedNames |-> NotStarted]

\* const fullArtifacts = Object.assign({}, Runner.instantiateComputedArtifacts(), artifacts):
\* what AuditRunner.run is handed, a new object
fullArtifacts == ObjectAssign(ObjectAssign(EmptyObject, computedArtifacts), artifacts)

\* Object.assign with the Artifacts as its target: the request functions are
\* written into the Artifacts object itself
AuditRun_assignInPlace ==
  /\ pc = "auditArtifacts"
  /\ ~AuditsMissing(config)
  /\ ~TargetMismatch(url, artifacts)
  /\ ~SettingsMismatch(artifacts, config)
  /\ computedArtifacts' = instantiateComputedArtifacts
  /\ artifacts' = ObjectAssign(artifacts, instantiateComputedArtifacts)
  /\ cache' = newCaches
  /\ trace' = Append(trace, Event("Evaluator.run", "call"))
  /\ pc' = "Evaluator.run"
  /\ UNCHANGED <<runsVars, computeCount, promises, held, received, config, url,
                 collectorUrl, loadedFrom, store, err, captured, outcome, auditResults,
                 auditRunWarnings, resultsById, categories, lhr>>

AuditRun ==
  /\ pc = "auditArtifacts"
  /\ ~AuditsMissing(config)
  /\ ~TargetMismatch(url, artifacts)
  /\ ~SettingsMismatch(artifacts, config)
  /\ computedArtifacts' = instantiateComputedArtifacts
  /\ cache' = newCaches
  /\ trace' = Append(trace, Event("Evaluator.run", "call"))
  /\ pc' = "Evaluator.run"
  /\ UNCHANGED <<runsVars, computeCount, promises, held, received, config, url, artifacts,
                 collectorUrl, loadedFrom, store, err, captured, outcome, auditResults,
                 auditRunWarnings, resultsById, categories, lhr>>

(***************************************************************************)
(* Runner.run after the audit phase                                        *)
(***************************************************************************)
\* results AuditRunner.run may resolve to: none, one, two with different ids,
\* two with the same id, three where the first and the last share an id
AuditResult(id, score) == [id |-> id, score |-> score]
AuditResultSeqs ==
  {<<>>,
   <<AuditResult("auditA", "pass")>>,
   <<AuditResult("auditA", "pass"), AuditResult("auditB", "fail")>>,
   <<AuditResult("auditA", "fail"), AuditResult("auditA", "pass")>>,
   <<AuditResult("auditA", "fail"), AuditResult("auditB", "fail"),
     AuditResult("auditA", "pass")>>}
AuditWarningSeqs == {<<>>, <<"auditWarning1", "auditWarning2">>}

\* obj[key] = value
SetProperty(obj, key, value) ==
  [k \in (DOMAIN obj) \cup {key} |-> IF k = key THEN value ELSE obj[k]]

\* the first result recorded under an id is kept
RECURSIVE AddResults_firstWins(_, _)
AddResults_firstWins(acc, results) ==
  IF results = <<>> THEN acc
  ELSE AddResults_firstWins(IF Head(results).id \in DOMAIN acc THEN acc
                            ELSE SetProperty(acc, Head(results).id, Head(results)),
                            Tail(results))

\* for (const audit of auditResults) resultsById[audit.id] = audit;
RECURSIVE AddResults(_, _)
AddResults(acc, results) ==
  IF results = <<>> THEN acc
  ELSE AddResults(SetProperty(acc, Head(results).id, Head(results)), Tail(results))

\* AuditRunner.run resolved; resultsById is filled
EvaluatorSettle ==
  /\ pc = "Evaluator.run"
  /\ \E r \in AuditResultSeqs, w \in AuditWarningSeqs :
       /\ auditResults' = r
       /\ auditRunWarnings' = w
       /\ resultsById' = AddResults(EmptyObject, r)
  /\ trace' = Append(trace, Event("Evaluator.run", "settle"))
  /\ pc' = "score"
  /\ UNCHANGED <<registryVars, config, url, artifacts, collectorUrl, loadedFrom, store,
                 err, captured, outcome, categories, lhr, computedArtifacts>>

EvaluatorFail ==
  /\ pc = "Evaluator.run"
  /\ Catch("Evaluator.run failed", Append(trace, Event("Evaluator.run", "throw")))
  /\ UNCHANGED failedVars

\* if (config.categories) is false: categories stays {}
ScoreSkip ==
  /\ pc = "score"
  /\ ~Truthy(config.categories)
  /\ pc' = "assemble"
  /\ UNCHANGED <<registryVars, config, url, artifacts, collectorUrl, loadedFrom, store,
                 trace, err, captured, outcome, auditResults, auditRunWarnings,
                 resultsById, categories, lhr, computedArtifacts>>

ScoreSettle ==
  /\ pc = "score"
  /\ Truthy(config.categories)
  /\ categories' = [c \in {config.categories} |-> [scoredFrom |-> resultsById]]
  /\ trace' = Append(Append(trace, Event("Scorer.scoreAllCategories", "call")),
                     Event("Scorer.scoreAllCategories", "settle"))
  /\ pc' = "assemble"
  /\ UNCHANGED <<registryVars, config, url, artifacts, collectorUrl, loadedFrom, store,
                 err, captured, outcome, auditResults, auditRunWarnings, resultsById,
                 lhr, computedArtifacts>>

ScoreFail ==
  /\ pc = "score"
  /\ Truthy(config.categories)
  /\ Catch("Scorer.scoreAllCategories failed",
           Append(Append(trace, Event("Scorer.scoreAllCategories", "call")),
                  Event("Scorer.scoreAllCategories", "throw")))
  /\ UNCHANGED failedVars

\* artifacts.LighthouseRunWarnings || []
OrEmpty(arr) == IF arr.present THEN arr.items ELSE <<>>

\* the collection-phase warnings pushed ahead of the evaluation-phase ones
runWarnings_artifactsFirst(auditW, a) == OrEmpty(a.LighthouseRunWarnings) \o auditW

\* lighthouseRunWarnings.push(...auditRunWarnings, ...artifacts.LighthouseRunWarnings || [])
runWarnings(auditW, a) == auditW \o OrEmpty(a.LighthouseRunWarnings)

Assemble ==
  /\ pc = "assemble"
  /\ lhr' = [requestedUrl |-> artifacts.requestedUrl,
             runWarnings |-> runWarnings(auditRunWarnings, artifacts),
             audits |-> resultsById,
             configSettings |-> config.settings,
             categories |-> categories,
             icuMessagePaths |-> "{}"]
  /\ trace' = trace \o <<Event("Assemble", "call"),
                         Event("Localizer.getFormattedStrings", "call"),
                         Event("Localizer.getFormattedStrings", "settle"),
                         Event("Assemble", "settle")>>
  /\ pc' = "localize"
  /\ UNCHANGED <<registryVars, config, url, artifacts, collectorUrl, loadedFrom, store,
                 err, captured, outcome, auditResults, auditRunWarnings, resultsById,
                 categories, computedArtifacts>>

\* i18n.getRendererFormattedStrings threw while the lhr was being built
AssembleFail ==
  /\ pc = "assemble"
  /\ Catch("Localizer.getFormattedStrings failed",
           trace \o <<Event("Assemble", "call"),
                      Event("Localizer.getFormattedStrings", "call"),
                      Event("Localizer.getFormattedStrings", "throw")>>)
  /\ UNCHANGED failedVars

\* lhr.i18n.icuMessagePaths = i18n.replaceIcuMessageInstanceIds(lhr, locale)
Localize ==
  /\ pc = "localize"
  /\ lhr' = [lhr EXCEPT !.icuMessagePaths = "replaced paths"]
  /\ trace' = Append(Append(trace, Event("Localizer.replacePlaceholders", "call")),
                     Event("Localizer.replacePlaceholders", "settle"))
  /\ pc' = "render"
  /\ UNCHANGED <<registryVars, config, url, artifacts, collectorUrl, loadedFrom, store,
                 err, captured, outcome, auditResults, auditRunWarnings, resultsById,
                 categories, computedArtifacts>>

LocalizeFail ==
  /\ pc = "localize"
  /\ Catch("Localizer.replacePlaceholders failed",
           Append(Append(trace, Event("Localizer.replacePlaceholders", "call")),
                  Event("Localizer.replacePlaceholders", "throw")))
  /\ UNCHANGED failedVars

\* const report = generateReport(lhr, settings.output); return {lhr, artifacts, report};
Render ==
  /\ pc = "render"
  /\ outcome' = Returned(RunnerResult(lhr, artifacts,
                                      [rendered |-> lhr, output |-> config.settings.output]))
  /\ trace' = Append(Append(trace, Event("Renderer.generateReport", "call")),
                     Event("Renderer.generateReport", "settle"))
  /\ pc' = "done"
  /\ UNCHANGED <<registryVars, config, url, artifacts, collectorUrl, loadedFrom, store,
                 err, captured, auditResults, auditRunWarnings, resultsById,
                 categories, lhr, computedArtifacts>>

RenderFail ==
  /\ pc = "render"
  /\ Catch("Renderer.generateReport failed",
           Append(Append(trace, Event("Renderer.generateReport", "call")),
                  Event("Renderer.generateReport", "throw")))
  /\ UNCHANGED failedVars

NextPipeline ==
  \/ RunStart
  \/ GatherLoad \/ GatherNoPasses \/ GatherNoUrl \/ GatherInvalidUrl \/ GatherRun
  \/ LoadSettle \/ LoadFail \/ CollectorSettle \/ CollectorFail
  \/ PersistSave \/ PersistSkip \/ SaveSettle \/ SaveFail
  \/ EarlyExit \/ GoAudit
  \/ AuditNoAudits \/ AuditUrlMismatch \/ AuditSettingsMismatch \/ AuditRun
  \/ EvaluatorSettle \/ EvaluatorFail
  \/ ScoreSkip \/ ScoreSettle \/ ScoreFail
  \/ Assemble \/ AssembleFail
  \/ Localize \/ LocalizeFail
  \/ Render \/ RenderFail
  \/ CaptureSettle

vars == <<pipelineVars, registryVars>>
Init == InitPipeline
Next == NextPipeline
Spec == Init /\ [][Next]_vars

\* Runner.run is one async function: whenever the promise it awaits settles,
\* or it is between two awaits, its next step is taken.
SpecFair == Init /\ [][Next]_vars /\ WF_vars(Next)

(***************************************************************************)
(* Computed artifacts: while AuditRunner.run is in flight its audits call  *)
(* the request<name> functions of the object instantiateComputedArtifacts  *)
(* built.  The request method itself (gather/computed/computed-artifact)   *)
(* is modelled from its specified contract: return the cached promise if   *)
(* there is one, else start the computation and cache its promise at once. *)
(***************************************************************************)
PendingPromise == [state |-> "pending"]
Cached(p) == [state |-> "cached", promise |-> p]

\* caller c calls artifacts.request<n>()
Request(c, n) ==
  /\ pc = "Evaluator.run"
  /\ held[c] = NoRequest
  /\ LET inst == computedArtifacts[n]
         entry == cache[inst]
         p == <<inst, computeCount[inst] + 1>>
     IN IF entry = NotStarted
        THEN /\ computeCount' = [computeCount EXCEPT ![inst] = @ + 1]
             /\ promises' = SetProperty(promises, p, PendingPromise)
             /\ cache' = [cache EXCEPT ![inst] = Cached(p)]
             /\ held' = [held EXCEPT ![c] =
                           [name |-> n, promise |-> p, found |-> "NotStarted"]]
        ELSE /\ held' = [held EXCEPT ![c] =
                           [name |-> n, promise |-> entry.promise,
                            found |-> promises[entry.promise].state]]
             /\ UNCHANGED <<computeCount, promises, cache>>
  /\ UNCHANGED <<received, runsVars, pipelineVars>>

\* the computation behind promise p settles
SettleCompute(p) ==
  /\ pc = "Evaluator.run"
  /\ p \in DOMAIN promises
  /\ promises[p] = PendingPromise
  /\ \E o \in [state : {"resolved"}, value : ComputedValues]
               \cup {[state |-> "rejected", error |-> "compute failed"]} :
       promises' = [promises EXCEPT ![p] = o]
  /\ UNCHANGED <<cache, computeCount, held, received, runsVars, pipelineVars>>

\* caller c's await on the promise it was given completes
Receive(c) ==
  /\ pc = "Evaluator.run"
  /\ held[c] # NoRequest
  /\ received[c] = NoOutcome
  /\ promises[held[c].promise] # PendingPromise
  /\ received' = [received EXCEPT ![c] = promises[held[c].promise]]
  /\ UNCHANGED <<cache, computeCount, promises, held, runsVars, pipelineVars>>

PromiseIds == ComputedNames \X (1..NumCallers)

NextRegistry ==
  \/ \E c \in Callers, n \in ComputedNames : Request(c, n)
  \/ \E p \in PromiseIds : SettleCompute(p)
  \/ \E c \in Callers : Receive(c)

\* a full run (both mode flags off) of a valid config, at the point where
\* Runner.auditArtifacts has called AuditRunner.run
InitRegistry ==
  /\ config = [settings |-> [gatherMode |-> "false", auditMode |-> "false",
                             output |-> "json", throttlingMethod |-> "devtools"],
               passes |-> [present |-> TRUE, items |-> <<"defaultPass">>],
               audits |-> [present |-> TRUE, items |-> <<"auditA">>],
               categories |-> "cat1"]
  /\ url = "http://a.com"
  /\ pc = "Evaluator.run"
  /\ artifacts = [requestedUrl |-> "http://a.com/", settings |-> NoSettings,
                  LighthouseRunWarnings |-> AbsentArray]
  /\ collectorUrl = "http://a.com/"
  /\ loadedFrom = NoPath
  /\ store = [p \in ArtifactsPaths |-> NotSaved]
  /\ trace = <<Event("Sentry.captureBreadcrumb", "call"), Event("Collector.run", "call"),
               Event("Collector.run", "settle"), Event("Evaluator.run", "call")>>
  /\ err = "none"
  /\ captured = <<>>
  /\ outcome = Pending
  /\ auditResults = <<>>
  /\ auditRunWarnings = <<>>
  /\ resultsById = EmptyObject
  /\ categories = EmptyObject
  /\ lhr = NoLhr
  /\ computedArtifacts = instantiateComputedArtifacts
  /\ cache = newCaches
  /\ computeCount = [n \in ComputedNames |-> 0]
  /\ promises = EmptyObject
  /\ held = [c \in Callers |-> NoRequest]
  /\ received = [c \in Callers |-> NoOutcome]
  /\ InitRuns

SpecRegistry == InitRegistry /\ [][NextRegistry]_vars

(***************************************************************************)
(* The evaluation phases of several runs, in sequence or overlapping.      *)
(* Each run calls Runner.auditArtifacts once, which builds its registry    *)
(* of computed artifacts and hands it to AuditRunner.run; the audits of    *)
(* that run then request computed artifacts from it.                       *)
(***************************************************************************)
\* one module-level object handed out to every caller
NewObject_shared(h) == 1

\* const computedArtifacts = {}: an object distinct from all that exist
NewObject(h) == Len(h) + 1

\* the heap once object id has been built as obj
Allocate(h, id, obj) ==
  [i \in 1..(IF id > Len(h) THEN id ELSE Len(h)) |-> IF i = id THEN obj ELSE h[i]]

\* run r's Runner.auditArtifacts calls instantiateComputedArtifacts and then
\* AuditRunner.run: one instance per class, each constructed with the new
\* object and starting with an empty cache
RunEvaluate(r) ==
  /\ runPc[r] = "idle"
  /\ LET id == NewObject(heap)
     IN /\ heap' = Allocate(heap, id,
                            [requests |-> instantiateComputedArtifacts,
                             constructedWith |-> [n \in ComputedNames |-> id],
                             caches |-> newCaches])
        /\ runRegistry' = [runRegistry EXCEPT ![r] = id]
  /\ runPc' = [runPc EXCEPT ![r] = "Evaluator.run"]
  /\ UNCHANGED <<observed, cache, computeCount, promises, held, received, pipelineVars>>

\* an audit of run r calls request<n>() on the object its run built: the
\* instance computes and caches the outcome, or answers from its cache
RunRequest(r, n) ==
  /\ runPc[r] = "Evaluator.run"
  /\ LET id == runRegistry[r]
         inst == heap[id].requests[n]
         entry == heap[id].caches[inst]
     IN IF entry = NotStarted
        THEN \E o \in {"value", "failure"} :
               /\ heap' = [heap EXCEPT ![id].caches[inst] =
                             [state |-> "cached", by |-> r, outcome |-> o]]
               /\ observed' = [observed EXCEPT ![r] =
                                 @ \cup {[name |-> n, by |-> r, outcome |-> o]}]
        ELSE /\ observed' = [observed EXCEPT ![r] =
                               @ \cup {[name |-> n, by |-> entry.by,
                                        outcome |-> entry.outcome]}]
             /\ heap' = heap
  /\ UNCHANGED <<runPc, runRegistry, cache, computeCount, promises, held, received,
                 pipelineVars>>

\* AuditRunner.run of run r settles
RunEnd(r) ==
  /\ runPc[r] = "Evaluator.run"
  /\ runPc' = [runPc EXCEPT ![r] = "ended"]
  /\ UNCHANGED <<runRegistry, heap, observed, cache, computeCount, promises, held,
                 received, pipelineVars>>

NextRuns ==
  \/ \E r \in Runs : RunEvaluate(r)
  \/ \E r \in Runs, n \in ComputedNames : RunRequest(r, n)
  \/ \E r \in Runs : RunEnd(r)

SpecRuns == InitRegistry /\ [][NextRuns]_vars

(***************************************************************************)
(* Properties                                                              *)
(***************************************************************************)
Called(op) == \E i \in DOMAIN trace : trace[i] = Event(op, "call")
Settled(op) == \E i \in DOMAIN trace : trace[i] = Event(op, "settle")
Thrown(op) == \E i \in DOMAIN trace : trace[i] = Event(op, "throw")

ValidationErrors ==
  {"No passes in config to run",
   "You must provide a url to the runner",
   "The url provided should have a proper protocol and hostname",
   "No audits in config to evaluate",
   "Cannot run audit mode on different URL than gatherers were",
   "Cannot change settings between gathering and auditing"}

\* the error each failing step raises
FailureOf ==
  [op \in {"Store.load", "Collector.run", "Store.save", "Evaluator.run",
           "Scorer.scoreAllCategories", "Localizer.getFormattedStrings",
           "Localizer.replacePlaceholders", "Renderer.generateReport"} |->
     CASE op = "Store.load" -> "Store.load failed"
       [] op = "Collector.run" -> "Collector.run failed"
       [] op = "Store.save" -> "Store.save failed"
       [] op = "Evaluator.run" -> "Evaluator.run failed"
       [] op = "Scorer.scoreAllCategories" -> "Scorer.scoreAllCategories failed"
       [] op = "Localizer.getFormattedStrings" -> "Localizer.getFormattedStrings failed"
       [] op = "Localizer.replacePlaceholders" -> "Localizer.replacePlaceholders failed"
       [] op = "Renderer.generateReport" -> "Renderer.generateReport failed"]

\* C1: every error raised at a step of a run is handed to captureException
\* exactly once, tagged fatal, and the caller then receives that same error
\* and no result; a run that ends without error never calls captureException.
C1_ErrorCapturedOnceAndRethrown ==
  /\ Len(captured) <= 1
  /\ outcome.kind = "threw" <=> pc = "failed"
  /\ pc \in {"Sentry.captureException", "failed"} =>
       /\ Len(captured) = 1
       /\ captured[1].level = "fatal"
       /\ captured[1].error = err
       /\ \A i \in DOMAIN trace :
            trace[i].ev = "throw" => captured[1].error = FailureOf[trace[i].op]
       /\ (\A i \in DOMAIN trace : trace[i].ev # "throw") =>
            captured[1].error \in ValidationErrors
  /\ pc = "Sentry.captureException" => outcome = Pending
  /\ pc = "failed" => outcome = Threw(captured[1].error)
  /\ pc \notin {"Sentry.captureException", "failed"} =>
       /\ captured = <<>>
       /\ ~Called("Sentry.captureException")
       /\ \A i \in DOMAIN trace : trace[i].ev # "throw"
  /\ pc = "done" => outcome.kind = "returned"

\* a run that had assembled and localized its lhr fails in the Renderer
C1_Witness ==
  /\ pc = "failed"
  /\ Thrown("Renderer.generateReport")
  /\ lhr # NoLhr
  /\ outcome = Threw("Renderer.generateReport failed")

PhaseOf ==
  [op \in {"Store.load", "Collector.run", "Store.save", "Evaluator.run",
           "Scorer.scoreAllCategories", "Assemble", "Localizer.replacePlaceholders",
           "Renderer.generateReport"} |->
     CASE op \in {"Store.load", "Collector.run"} -> 1
       [] op = "Store.save" -> 2
       [] op = "Evaluator.run" -> 3
       [] op = "Scorer.scoreAllCategories" -> 4
       [] op = "Assemble" -> 5
       [] op = "Localizer.replacePlaceholders" -> 6
       [] op = "Renderer.generateReport" -> 7]

PhaseCalls == {i \in DOMAIN trace : trace[i].ev = "call" /\ trace[i].op \in DOMAIN PhaseOf}

\* C2: the phases that execute in a run start in the order Collect (or Load),
\* Persist, Evaluate, Score, Assemble, Localize, Render, and a phase starts
\* only after every phase started earlier has settled.
C2_PhasesInOrder ==
  \A i \in PhaseCalls, j \in PhaseCalls :
    i < j =>
      /\ PhaseOf[trace[i].op] < PhaseOf[trace[j].op]
      /\ \E k \in (i + 1)..(j - 1) : trace[k] = Event(trace[i].op, "settle")

\* a run through all seven phases
C2_Witness ==
  /\ pc = "done"
  /\ {PhaseOf[trace[i].op] : i \in PhaseCalls} = 1..7

TruthyModes == {"true"} \cup PathStrings

\* C3: shouldGather is true exactly when gatherMode is truthy or equal to
\* auditMode, shouldAudit exactly when auditMode is truthy or equal to
\* gatherMode, and the run loads, collects, exits early or evaluates
\* accordingly; both unset gives (true, true), a gatherMode path alone
\* (true, false), auditMode true alone (false, true).
C3_ModeDispatch ==
  LET g == config.settings.gatherMode
      a == config.settings.auditMode
      gather == g \in TruthyModes \/ g = a
      audit == a \in TruthyModes \/ g = a
  IN /\ shouldGather(config.settings) = gather
     /\ shouldAudit(config.settings) = audit
     /\ (g = "undefined" /\ a = "undefined") =>
          shouldGather(config.settings) /\ shouldAudit(config.settings)
     /\ (g \in PathStrings /\ a = "undefined") =>
          shouldGather(config.settings) /\ ~shouldAudit(config.settings)
     /\ (g = "undefined" /\ a = "true") =>
          ~shouldGather(config.settings) /\ shouldAudit(config.settings)
     /\ Called("Store.load") => ~gather
     /\ (Called("Collector.run") \/ err \in {"No passes in config to run",
            "You must provide a url to the runner",
            "The url provided should have a proper protocol and hostname"}) => gather
     /\ outcome = Returned(JsUndefined) => ~audit
     /\ (pc = "auditArtifacts" \/ Called("Evaluator.run")) => audit

\* a collect-only run: gatherMode a path, auditMode unset
C3_Witness ==
  /\ config.settings.gatherMode \in PathStrings
  /\ config.settings.auditMode = "undefined"
  /\ Settled("Collector.run")
  /\ outcome = Returned(JsUndefined)

EvaluationOps ==
  {"Evaluator.run", "Scorer.scoreAllCategories", "Localizer.getFormattedStrings",
   "Localizer.replacePlaceholders", "Renderer.generateReport"}

\* the settings give shouldAudit = false
AuditNotRequired ==
  /\ config.settings.auditMode \notin TruthyModes
  /\ config.settings.gatherMode # config.settings.auditMode

\* C4 as stated: every run with shouldAudit = false that raises no error
\* returns undefined, never invokes the Evaluator, Scorer, Localizer or
\* Renderer, and has saved the Artifacts to the resolved path.
C4_EarlyExitAlwaysSaved ==
  (pc = "done" /\ AuditNotRequired) =>
    /\ outcome = Returned(JsUndefined)
    /\ \A op \in EvaluationOps : ~Called(op)
    /\ Settled("Store.save")
    /\ store[_getArtifactsPath(config.settings)] = artifacts

\* C4 amended: every run with shouldAudit = false that raises no error
\* returns undefined and never invokes the Evaluator, Scorer, Localizer or
\* Renderer; if gatherMode is truthy it has saved the Artifacts the Collector
\* produced to the resolved path before returning, and if gatherMode is falsy
\* (one flag false, the other unset) it has loaded Artifacts and saved nothing.
C4_EarlyExitSavedWhenGathered ==
  (pc = "done" /\ AuditNotRequired) =>
    /\ outcome = Returned(JsUndefined)
    /\ \A op \in EvaluationOps : ~Called(op)
    /\ config.settings.gatherMode \in TruthyModes =>
         /\ Settled("Collector.run")
         /\ Settled("Store.save")
         /\ artifacts \in ArtifactsSet
         /\ store = [p \in ArtifactsPaths |->
                       IF p = _getArtifactsPath(config.settings) THEN artifacts ELSE NotSaved]
    /\ config.settings.gatherMode \notin TruthyModes =>
         /\ Settled("Store.load")
         /\ ~Called("Store.save")
         /\ store = [p \in ArtifactsPaths |-> NotSaved]

\* a collect-only run to a path ended with the Artifacts saved there
C4_Witness ==
  /\ pc = "done"
  /\ AuditNotRequired
  /\ config.settings.gatherMode \in PathStrings
  /\ store[PathResolve(config.settings.gatherMode)] = artifacts

\* s1 and s2 are structurally equal once gatherMode, auditMode and output
\* are left out
EqualOutsideModeKeys(s1, s2) ==
  /\ (DOMAIN s1) \ ModeKeys = (DOMAIN s2) \ ModeKeys
  /\ \A k \in (DOMAIN s1) \ ModeKeys : s1[k] = s2[k]

Supplied(u) == u \notin {"undefined", ""}

\* pairs <<supplied, recorded>> of the same target up to the fragment
SameTargetPairs ==
  {<<"http://a.com", "http://a.com/">>, <<"http://a.com/#f", "http://a.com/">>,
   <<"http://b.com/", "http://b.com/">>}

TargetDiffers == Supplied(url) /\ <<url, artifacts.requestedUrl>> \notin SameTargetPairs

\* Runner.auditArtifacts ran its checks
EvaluationDecided ==
  \/ Called("Evaluator.run")
  \/ err \in {"No audits in config to evaluate",
              "Cannot run audit mode on different URL than gatherers were",
              "Cannot change settings between gathering and auditing"}

\* C5: when the Artifacts carry a settings snapshot the settings check passes
\* exactly when artifacts.settings and config.settings are equal outside
\* gatherMode, auditMode and output; a failed check is the settings-mismatch
\* error raised before the Evaluator is invoked; without a snapshot that
\* error is never raised.
C5_SettingsGuard ==
  /\ err = "Cannot change settings between gathering and auditing" =>
       /\ artifacts.settings # NoSettings
       /\ ~EqualOutsideModeKeys(artifacts.settings, config.settings)
       /\ ~Called("Evaluator.run")
  /\ Called("Evaluator.run") =>
       \/ artifacts.settings = NoSettings
       \/ EqualOutsideModeKeys(artifacts.settings, config.settings)
  /\ ( /\ EvaluationDecided
       /\ config.audits.present
       /\ ~TargetDiffers
       /\ artifacts.settings # NoSettings
       /\ ~EqualOutsideModeKeys(artifacts.settings, config.settings) ) =>
       /\ err = "Cannot change settings between gathering and auditing"
       /\ ~Called("Evaluator.run")

\* the Evaluator runs on Artifacts whose snapshot differs from the current
\* settings in gatherMode, auditMode and output only
C5_Witness ==
  /\ Called("Evaluator.run")
  /\ artifacts.settings # NoSettings
  /\ "output" \in DOMAIN artifacts.settings
  /\ artifacts.settings.output # config.settings.output
  /\ artifacts.settings.gatherMode # config.settings.gatherMode
  /\ artifacts.settings.auditMode # config.settings.auditMode

\* C6: when a target identifier was supplied and the check is reached, the
\* run fails with the target-mismatch error, before the Evaluator is invoked,
\* exactly when the identifier differs from artifacts.URL.requestedUrl in more
\* than the fragment; with no identifier supplied that error is never raised.
C6_TargetGuard ==
  /\ err = "Cannot run audit mode on different URL than gatherers were" =>
       /\ TargetDiffers
       /\ ~Called("Evaluator.run")
  /\ Called("Evaluator.run") => ~TargetDiffers
  /\ (EvaluationDecided /\ config.audits.present /\ TargetDiffers) =>
       /\ err = "Cannot run audit mode on different URL than gatherers were"
       /\ ~Called("Evaluator.run")

\* an evaluate-only run for b.com on Artifacts recorded for a.com has failed
C6_Witness ==
  /\ pc = "failed"
  /\ url = "http://b.com/"
  /\ artifacts \in ArtifactsSet
  /\ artifacts.requestedUrl = "http://a.com/"
  /\ outcome = Threw("Cannot run audit mode on different URL than gatherers were")

\* the callers that requested computed artifact n
Requesters(n) == {c \in Callers : held[c] # NoRequest /\ held[c].name = n}

\* C7: however the request("X") calls of N >= 2 callers interleave with one
\* another and with the computation settling, the compute function for "X"
\* executes exactly once, every caller is given the same promise and every
\* caller receives the same settled outcome.
C7_ComputedOncePerName ==
  \A n \in ComputedNames :
    /\ computeCount[n] <= 1
    /\ Requesters(n) # {} => computeCount[n] = 1
    /\ \A c1 \in Requesters(n), c2 \in Requesters(n) :
         /\ held[c1].promise = held[c2].promise
         /\ (received[c1] # NoOutcome /\ received[c2] # NoOutcome) =>
              received[c1] = received[c2]
    /\ \A c \in Requesters(n) :
         received[c] # NoOutcome =>
           /\ received[c] # PendingPromise
           /\ received[c] = promises[held[c].promise]

\* every caller requested "X", one started the computation, the others found
\* it in flight, and all received the value it resolved to
C7_Witness ==
  /\ \A c \in Callers :
       /\ held[c] # NoRequest
       /\ held[c].name = "X"
       /\ received[c] = [state |-> "resolved", value |-> "v1"]
  /\ Cardinality({c \in Callers : held[c] # NoRequest /\ held[c].found = "pending"})
       = NumCallers - 1

WellFormedTargets ==
  {"http://a.com", "http://a.com/#f", "http://b.com/"}

\* the canonical form of the well-formed targets
CanonicalTarget ==
  [u \in WellFormedTargets |-> IF u = "http://a.com" THEN "http://a.com/" ELSE u]

GatherValidationErrors ==
  {"No passes in config to run",
   "You must provide a url to the runner",
   "The url provided should have a proper protocol and hostname"}

\* C8: when collection is required the Collector is invoked only if
\* config.passes is present and non-empty and the target is a non-empty
\* string that canonicalizes to a well-formed URL, and it then receives the
\* canonical identifier; otherwise the run fails with the missing-passes,
\* missing-target or invalid-target error before the Collector or the Store
\* has been invoked.
C8_CollectorOnlyWhenValid ==
  /\ Called("Collector.run") =>
       /\ config.passes.present
       /\ config.passes.items # <<>>
       /\ url \in WellFormedTargets
       /\ collectorUrl = CanonicalTarget[url]
  /\ ( /\ pc \notin {"run", "gatherArtifacts"}
       /\ (config.settings.gatherMode \in TruthyModes
           \/ config.settings.gatherMode = config.settings.auditMode)
       /\ \/ ~config.passes.present
          \/ config.passes.items = <<>>
          \/ url \notin WellFormedTargets ) =>
       /\ err \in GatherValidationErrors
       /\ ~Called("Collector.run")
       /\ ~Called("Store.load")
       /\ ~Called("Store.save")

\* C9: when evaluation is required the Evaluator is invoked only if
\* config.audits is present and non-empty and the target and settings checks
\* have passed; if config.audits is absent or empty the run fails with the
\* missing-audits error and the Evaluator, Scorer, Localizer and Renderer are
\* never invoked.
C9_EvaluatorOnlyWhenValid ==
  /\ Called("Evaluator.run") =>
       /\ config.audits.present
       /\ config.audits.items # <<>>
       /\ ~TargetDiffers
       /\ \/ artifacts.settings = NoSettings
          \/ EqualOutsideModeKeys(artifacts.settings, config.settings)
  /\ (EvaluationDecided /\ (~config.audits.present \/ config.audits.items = <<>>)) =>
       /\ err = "No audits in config to evaluate"
       /\ \A op \in EvaluationOps : ~Called(op)

\* C10: once Store.save has completed no step of the run deletes or rewrites
\* what was saved, and a run that fails after the save ends in failure with
\* the Artifacts still saved and no result returned.
C10_PersistenceCommitted ==
  [][ /\ \A p \in ArtifactsPaths : store[p] # NotSaved => store'[p] = store[p]
      /\ (pc' = "failed" /\ Settled("Store.save")') =>
           /\ store'[_getArtifactsPath(config'.settings)] = artifacts'
           /\ outcome' = Threw(err')
    ]_vars

\* the Artifacts were saved, then the Evaluator failed and the run failed
C10_Witness ==
  /\ pc = "failed"
  /\ Settled("Store.save")
  /\ Thrown("Evaluator.run")
  /\ store[_getArtifactsPath(config.settings)] = artifacts

(***************************************************************************)
(* C11 .. C19                                                              *)
(***************************************************************************)
\* what artifacts.LighthouseRunWarnings contributes: its items, nothing if absent
CollectionWarnings ==
  IF artifacts.LighthouseRunWarnings.present
    THEN artifacts.LighthouseRunWarnings.items ELSE <<>>

\* position by position: the first Len(a) entries of w are a, the rest are b
IsConcatenation(w, a, b) ==
  /\ Len(w) = Len(a) + Len(b)
  /\ \A i \in 1..Len(a) : w[i] = a[i]
  /\ \A j \in 1..Len(b) : w[Len(a) + j] = b[j]

ClaimedPath(g, a) ==
  CASE a \in PathStrings -> <<"/cwd", a>>
    [] a \notin PathStrings /\ g \in PathStrings -> <<"/cwd", g>>
    [] OTHER -> <<"/cwd", "latest-run">>

\* paths the Store has been asked to write to so far
SavedPaths == {p \in ArtifactsPaths : store[p] # NotSaved}

\* C12: the artifacts path is the auditMode value if it is a string,
\* otherwise the gatherMode value if it is a string, otherwise the default
\* directory under the working directory; with two different path strings
\* the auditMode path is used; the path Store.save writes to is the path
\* Store.load would read from with the same settings.
C12_ArtifactsPath ==
  LET claimed == ClaimedPath(config.settings.gatherMode, config.settings.auditMode) IN
  /\ loadedFrom # NoPath => loadedFrom = claimed
  /\ SavedPaths \subseteq {claimed}
  /\ Settled("Store.save") => SavedPaths = {claimed}
  /\ \A p \in SavedPaths : p = _getArtifactsPath(config.settings)

\* both flags are path strings, different ones, and the Artifacts went to
\* the auditMode path
C12_Witness ==
  /\ config.settings.gatherMode \in PathStrings
  /\ config.settings.auditMode \in PathStrings
  /\ config.settings.gatherMode # config.settings.auditMode
  /\ Settled("Store.save")
  /\ store[<<"/cwd", config.settings.auditMode>>] = artifacts
  /\ store[<<"/cwd", config.settings.gatherMode>>] = NotSaved

\* how often the run has invoked op so far
CallCount(op) == Cardinality({i \in DOMAIN trace : trace[i] = Event(op, "call")})

CollaboratorOps ==
  {"Collector.run", "Store.load", "Store.save", "Evaluator.run",
   "Scorer.scoreAllCategories", "Localizer.replacePlaceholders",
   "Renderer.generateReport"}

\* C13: no step is retried: in every run, successful or failed, each of
\* Collector.run, Store.load, Store.save, Evaluator.run,
\* Scorer.scoreAllCategories, the placeholder localization and
\* Renderer.generateReport is invoked at most once; Collector.run and
\* Store.load exclude each other, the Collector being invoked only when
\* shouldGather is true and Store.load only when it is false.
C13_NoRetry ==
  LET g == config.settings.gatherMode
      a == config.settings.auditMode
      gather == g \in TruthyModes \/ g = a
  IN /\ \A op \in CollaboratorOps : CallCount(op) <= 1
     /\ CallCount("Collector.run") + CallCount("Store.load") <= 1
     /\ CallCount("Collector.run") = 1 => gather
     /\ CallCount("Store.load") = 1 => ~gather

\* a failed run after a failed load, and nothing was tried a second time
C13_Witness ==
  /\ pc = "failed"
  /\ Thrown("Store.load")
  /\ CallCount("Store.load") = 1
  /\ CallCount("Collector.run") = 0

\* the ids occurring in a sequence of results
IdsOf(results) == {results[i].id : i \in DOMAIN results}

\* the last result of the sequence that carries id
LastWithId(results, id) ==
  LET at == {i \in DOMAIN results : results[i].id = id}
      last == CHOOSE i \in at : \A j \in at : j <= i
  IN results[last]

\* byId has one entry per distinct id of results, the last result with that id
IsLastWriteWins(byId, results) ==
  /\ DOMAIN byId = IdsOf(results)
  /\ \A id \in IdsOf(results) : byId[id] = LastWithId(results, id)

\* C14: for every sequence of AuditResults the audits mapping of the report,
\* which is also the mapping handed to the Scorer, has exactly one entry per
\* distinct id in the sequence, and that entry is the last result in the
\* sequence with that id.
C14_LastWriteWins ==
  /\ Settled("Evaluator.run") => IsLastWriteWins(resultsById, auditResults)
  /\ \A c \in DOMAIN categories : IsLastWriteWins(categories[c].scoredFrom, auditResults)
  /\ lhr # NoLhr => IsLastWriteWins(lhr.audits, auditResults)
  /\ (pc = "done" /\ outcome # Returned(JsUndefined)) =>
       IsLastWriteWins(outcome.value.lhr.audits, auditResults)

\* three results, the first and the last under one id: the report holds the
\* last one, and the Scorer was handed the same mapping
C14_Witness ==
  /\ pc = "done"
  /\ Len(auditResults) = 3
  /\ auditResults[1].id = auditResults[3].id
  /\ auditResults[1] # auditResults[3]
  /\ outcome # Returned(JsUndefined)
  /\ outcome.value.lhr.audits["auditA"] = auditResults[3]
  /\ DOMAIN outcome.value.lhr.audits = {"auditA", "auditB"}
  /\ DOMAIN categories # {}
  /\ \A c \in DOMAIN categories : categories[c].scoredFrom = outcome.value.lhr.audits

\* the last event of the trace
LastEvent(t) == t[Len(t)]

\* C15: the Artifacts object is read-only once produced: no step after the
\* Collector or the Store produced it (persisting, the consistency guards,
\* augmenting with the computed-artifact request functions, assembling the
\* report) adds, removes or changes any of its keys, and the artifacts
\* returned to the caller are the ones the Collector or the Store produced.
C15_ArtifactsReadOnly ==
  [][ /\ artifacts # NoArtifacts => artifacts' = artifacts
      /\ (artifacts = NoArtifacts /\ artifacts' # NoArtifacts) =>
           LastEvent(trace') \in {Event("Collector.run", "settle"),
                                  Event("Store.load", "settle")}
      /\ (pc' = "Evaluator.run" /\ pc # "Evaluator.run") =>
           /\ DOMAIN artifacts' \cap DOMAIN computedArtifacts' = {}
           /\ \A k \in DOMAIN artifacts : fullArtifacts'[k] = artifacts[k]
      /\ (pc' = "done" /\ outcome' # Returned(JsUndefined)) =>
           outcome'.value.artifacts = artifacts'
    ]_vars

\* a report was returned together with the Artifacts the Collector produced,
\* after they were saved and after the Evaluator was handed the augmented copy
C15_Witness ==
  /\ pc = "done"
  /\ outcome # Returned(JsUndefined)
  /\ Settled("Collector.run")
  /\ Settled("Store.save")
  /\ Settled("Evaluator.run")
  /\ outcome.value.artifacts = artifacts
  /\ DOMAIN fullArtifacts = DOMAIN artifacts \cup ComputedNames
  /\ DOMAIN artifacts \cap ComputedNames = {}

\* the runs that have built a registry
Evaluating == {r \in Runs : runRegistry[r] # NoObject}

\* C16: each evaluation phase builds a fresh registry of computed artifacts:
\* across any sequence of runs, overlapping ones included, no two runs share
\* a registry object, so a value or failure cached in one run is never
\* observed by a request made in another run, while all computed artifacts
\* of one run share that run's single registry.
C16_FreshRegistryPerRun ==
  /\ \A r1, r2 \in Evaluating : r1 # r2 => runRegistry[r1] # runRegistry[r2]
  /\ \A r \in Runs : \A o \in observed[r] : o.by = r
  /\ \A r \in Evaluating : \A n \in ComputedNames :
       heap[runRegistry[r]].constructedWith[n] = runRegistry[r]
  /\ \A r \in Evaluating :
       observed[r] = {} => heap[runRegistry[r]].caches = newCaches

\* two overlapping runs have both requested X: one cached a value, the other
\* a failure, and each saw its own
C16_Witness ==
  /\ runPc[1] = "Evaluator.run"
  /\ runPc[2] = "Evaluator.run"
  /\ [name |-> "X", by |-> 1, outcome |-> "value"] \in observed[1]
  /\ [name |-> "X", by |-> 2, outcome |-> "failure"] \in observed[2]

\* position of the first event of the trace that is ev of op, 0 if none
FirstIndex(op, ev) ==
  IF \E i \in DOMAIN trace : trace[i] = Event(op, ev)
    THEN CHOOSE i \in DOMAIN trace :
           /\ trace[i] = Event(op, ev)
           /\ \A j \in DOMAIN trace : trace[j] = Event(op, ev) => i <= j
    ELSE 0

\* the run has Artifacts in hand and has decided whether to persist them
PastPersistStep == artifacts # NoArtifacts /\ pc # "persist"

\* C17: Store.save is invoked if and only if the run reached the persist
\* step with settings.gatherMode truthy; a full run with both mode flags
\* unset invokes the Collector and the Evaluator but never Store.save or
\* Store.load; every run that invokes Store.save has invoked Collector.run
\* earlier and never Store.load.
C17_SaveOnlyOnGatherMode ==
  LET g == config.settings.gatherMode
      a == config.settings.auditMode
  IN /\ Called("Store.save") <=> (PastPersistStep /\ g \in TruthyModes)
     /\ (g = "undefined" /\ a = "undefined") =>
          /\ ~Called("Store.save")
          /\ ~Called("Store.load")
          /\ PastPersistStep => Settled("Collector.run")
          /\ (pc = "done") => (Settled("Collector.run") /\ Settled("Evaluator.run"))
     /\ Called("Store.save") =>
          /\ Settled("Collector.run")
          /\ FirstIndex("Collector.run", "settle") < FirstIndex("Store.save", "call")
          /\ ~Called("Store.load")

\* a full run with both flags unset returned a report and the Store was
\* never touched
C17_Witness ==
  /\ config.settings.gatherMode = "undefined"
  /\ config.settings.auditMode = "undefined"
  /\ pc = "done"
  /\ outcome # Returned(JsUndefined)
  /\ Settled("Collector.run")
  /\ Settled("Evaluator.run")
  /\ ~Called("Store.save")
  /\ ~Called("Store.load")
  /\ \A p \in ArtifactsPaths : store[p] = NotSaved

\* the Artifacts carry a snapshot that differs from the current settings
\* outside gatherMode, auditMode and output
SettingsDiffer ==
  /\ artifacts.settings # NoSettings
  /\ ~EqualOutsideModeKeys(artifacts.settings, config.settings)

\* C18: the validations of the evaluation phase have a fixed precedence: with
\* config.audits absent the run fails with the missing-audits error whatever
\* the target and the settings are; otherwise, when both the target and the
\* settings mismatch, the error is the target-mismatch one; the
\* settings-mismatch error is raised only when the target check passed or
\* was skipped.
C18_ValidationPrecedence ==
  /\ (EvaluationDecided /\ ~config.audits.present) =>
       /\ err = "No audits in config to evaluate"
       /\ outcome \in {Pending, Threw("No audits in config to evaluate")}
  /\ (EvaluationDecided /\ config.audits.present /\ TargetDiffers /\ SettingsDiffer) =>
       /\ err = "Cannot run audit mode on different URL than gatherers were"
       /\ outcome \in {Pending,
                       Threw("Cannot run audit mode on different URL than gatherers were")}
  /\ err = "Cannot change settings between gathering and auditing" =>
       /\ config.audits.present
       /\ ~TargetDiffers
  /\ err = "Cannot run audit mode on different URL than gatherers were" =>
       config.audits.present

\* target and settings both mismatch and the run failed on the target
C18_Witness ==
  /\ pc = "failed"
  /\ config.audits.present
  /\ artifacts \in ArtifactsSet
  /\ TargetDiffers
  /\ SettingsDiffer
  /\ outcome = Threw("Cannot run audit mode on different URL than gatherers were")

\* no audits, and target and settings both mismatch: the run failed on the
\* missing audits
C18_WitnessNoAudits ==
  /\ pc = "failed"
  /\ ~config.audits.present
  /\ artifacts \in ArtifactsSet
  /\ TargetDiffers
  /\ SettingsDiffer
  /\ outcome = Threw("No audits in config to evaluate")

\* the run is over
Terminal == pc \in {"done", "failed"}

\* the three ways a run ends
DoneWithReport ==
  /\ pc = "done"
  /\ outcome.kind = "returned"
  /\ outcome.value # JsUndefined
  /\ err = "none"
DoneWithUndefined == pc = "done" /\ outcome = Returned(JsUndefined) /\ err = "none"
FailedWithError == pc = "failed" /\ err # "none" /\ outcome = Threw(err)

\* C19: provided every collaborator call eventually settles, every run
\* eventually ends, in exactly one of: done with a report, done with
\* undefined, failed with the error raised; done and failed are absorbing:
\* nothing changes and no collaborator is invoked after either.
C19_Terminates ==
  /\ <>Terminal
  /\ [](Terminal => (DoneWithReport \/ DoneWithUndefined \/ FailedWithError))
  /\ [](~Terminal => outcome = Pending)
  /\ [][Terminal => (pc' = pc /\ outcome' = outcome /\ trace' = trace)]_vars

\* a run that failed in the Renderer, its last collaborator, has ended
C19_Witness ==
  /\ FailedWithError
  /\ Thrown("Renderer.generateReport")
  /\ LastEvent(trace) = Event("Sentry.captureException", "settle")

====
